---- MODULE Spec2Model ----
(***************************************************************************)
(* Model of circuit.py: the wsRP2040128 board object, the gesture          *)
(* recogniser in _update_accelerometer (calibration, momentum, tilt        *)
(* classification, tilt history, command derivation, combination           *)
(* detection), the consumer code that resets momentum and clears the       *)
(* combination flag, and the Battery gauge.                                *)
(*                                                                         *)
(* Time is counted in whole seconds (time.monotonic() truncated): the only *)
(* comparison the code makes on time is "age < 2".                         *)
(* Python values of different types are records with different fields:     *)
(* a str is [kind |-> "str", ...], a dict is [kind |-> "dict", ...], so    *)
(* that == and != between a str and a dict behave as in Python.            *)
(***************************************************************************)
EXTENDS Integers, Sequences, FiniteSets, TLC

(* ------------------------------ bounds -------------------------------- *)

\* The clock is capped: no clock read returns more than MaxTime seconds.
MaxTime == 3

\* Gyro register grid of SpecClassify: calibrated gyro values -GyroMag..GyroMag.
GyroMag == 2

\* Accel register grid of SpecMomentum: -AccMag..AccMag g on the x and y axes.
AccMag == 1

\* battery ADC levels read: AdcLow, AdcLow + AdcStep, ... (AdcPoints steps)
AdcPoints == 120

\* demo's time gate: the fine clock runs to GateClock hundredths of a second and
\* a pass of the loop takes up to GateStep hundredths
GateClock == 30
GateStep == 6
\* the idle menu is followed for IdleTime seconds
IdleTime == 21

(* ------------------------- program constants -------------------------- *)

\* "def demo(self, sleep_time=0.05)", in hundredths of a second
sleep_time == 5

\* Battery: _max_voltage = 4.14 and _min_voltage = 3.4, in millivolts
max_voltage == 4140
min_voltage == 3400

\* "pin.value * 3.3 / 65535 * 2": full scale of the ADC word, and 3.3 * 2 volts in
\* millivolts
AdcFull == 65535
AdcReference == 6600

\* self.momentum['max'] (never assigned after construction)
MomentumMax == 10

\* QMI8658AccRange_8g divisor and QMI8658GyrRange_512dps divisor of read_xyz
acc_lsb_div == 4096
gyro_lsb_div == 64

\* thresholds of read_raw_xyz: "if xyz[i] >= 32767: xyz[i] = xyz[i]-65535"
SignThreshold == 32767
SignOffset == 65535

\* calibration offsets of _update_accelerometer, in hundredths
AccelBiasX == 1
AccelBiasY == 4
AccelBiasZ == 111
GyroBiasX == 558
GyroBiasY == 4555
GyroBiasZ == 20

\* "time.monotonic() - self.tilt_command_history[0]['time'] < 2"
CombinationWindow == 2
\* the selector sprite is drawn at y = 100 and moves 20 per choice
SelectorTop == 100
SelectorRow == 20
\* "within 20 seconds, the menu will automatically select the banner option"
AutoSelectAfter == 20

(* ------------------------------- state -------------------------------- *)

VARIABLES
    sensor,                \* QMI8658 output words ax, ay, az, gx, gy, gz last read (registers 0x35..0x40)
    now,                   \* time.monotonic(), whole seconds
    accel,                 \* self.accel
    gyro,                  \* self.gyro
    momentum,              \* self.momentum (x, y, z; 'max' is MomentumMax)
    tilt,                  \* self.tilt
    tilt_state,            \* self.tilt_state
    tilt_history,          \* self.tilt_history, oldest first
    cur_tilt_command,      \* self.cur_tilt_command
    tilt_command_history,  \* self.tilt_command_history, oldest first
    combination,           \* self.combination
    imu,                   \* the QMI8658 object, its I2C bus lock and its position in a bus call
    menu,                  \* position in main_menu and the loop it called; its selection
    gate,                  \* demo's time gate: the fine clock, self.time, the last decision
    adc,                   \* the battery pin's 16-bit level (board.BAT_ADC)
    battery,               \* the Battery object's _voltage, _percent, _charging
    loc,                   \* locals of the latest _update_accelerometer call
    last                   \* the operation that ran last

vars == <<sensor, now, accel, gyro, momentum, tilt, tilt_state, tilt_history,
          cur_tilt_command, tilt_command_history, combination, imu, menu, gate, adc,
          battery, loc, last>>

\* the fields of the wsRP2040128 object and the tick's locals
board == <<sensor, now, accel, gyro, momentum, tilt, tilt_state, tilt_history,
           cur_tilt_command, tilt_command_history, combination, adc, battery, loc, last>>

(* --------------------------- Python values ---------------------------- *)

\* a str value
Str(s) == [kind |-> "str", state |-> s]

\* {'state': s, 'time': t}
StateDict(s, t) == [kind |-> "dict", state |-> s, time |-> t]

\* {'command': c, 'time': t}
CommandDict(c, t) == [command |-> c, time |-> t]

\* abs()
Abs(n) == IF n < 0 THEN -n ELSE n

\* faulty variant of TruncDiv: rounds down (math.floor in place of int)
FloorDiv(n, d) == n \div d

\* int(n / d) for d > 0: Python's int() truncates toward zero
TruncDiv(n, d) == IF n >= 0 THEN n \div d ELSE -((-n) \div d)

\* faulty variant of Push: pop() in place of pop(0), the appended entry is dropped
Push_drops_newest(h, e) ==
    IF Len(h) + 1 > 3 THEN SubSeq(Append(h, e), 1, Len(h)) ELSE Append(h, e)

\* list.append(e) followed by "if len > 3: pop(0)"
Push(h, e) == IF Len(h) + 1 > 3 THEN Tail(Append(h, e)) ELSE Append(h, e)

(* ------------------------------ battery ------------------------------- *)
\* Voltages are exact integers in units of 1/AdcFull millivolt. The percentage is
\* kept as the exact numerator of percent/100 over max_diff, so that 100.0 is
\* max_diff and 0.0 is 0.

\* self._voltage = self._pin.value * 3.3 / 65535 * 2
Voltage(value) == value * AdcReference

MaxVoltage == max_voltage * AdcFull
MinVoltage == min_voltage * AdcFull

\* self._max_diff = self._max_voltage - self._min_voltage
max_diff == MaxVoltage - MinVoltage

\* the percentage branch of Battery._update
battery_percent(voltage) ==
    IF voltage > MaxVoltage THEN max_diff
    ELSE IF voltage < MinVoltage THEN 0
    ELSE MaxVoltage - voltage

\* Battery._update: voltage, percent and the charging flag (voltage > 4.14)
Battery_update(value) ==
    [voltage |-> Voltage(value),
     percent |-> battery_percent(Voltage(value)),
     charging |-> Voltage(value) > MaxVoltage]

(* ------------------------------ I2C bus ------------------------------- *)
\* QMI8658_Accelerometer: every register access is one bus call, _read_block or
\* _write_byte, made of try_lock, the transfers, and unlock in a finally clause.

\* "if (0x05) == rec"
WhoAmI == 5

\* config_apply: (register, value) in the order written
ConfigWrites == <<<<2, 96>>, <<3, 35>>, <<4, 83>>, <<5, 0>>, <<6, 17>>, <<7, 0>>, <<8, 3>>>>

\* _read_block(register, length) and _write_byte(register, value)
ReadCall(register, length) == [op |-> "read", register |-> register, arg |-> length]
WriteCall(register, value) == [op |-> "write", register |-> register, arg |-> value]

\* the bus calls of the program in order: who_am_i, read_revision, the seven
\* writes of config_apply (__init__), then the four reads of read_raw_xyz, which
\* repeat on every tick
BusCalls ==
    <<ReadCall(0, 1), ReadCall(1, 1)>>
    \o [i \in 1..Len(ConfigWrites) |-> WriteCall(ConfigWrites[i][1], ConfigWrites[i][2])]
    \o <<ReadCall(48, 3), ReadCall(53, 6), ReadCall(59, 6), ReadCall(53, 12)>>

\* index of the last call of __init__ and of the first call of read_raw_xyz
LastInitCall == 2 + Len(ConfigWrites)
FirstReadCall == LastInitCall + 1

\* faulty variant of unlock_finally: the unlock after the transfers, not in a
\* finally clause, is skipped when a transfer raised
unlock_on_success_only(locked, raising) == IF raising THEN locked ELSE FALSE

\* "finally: self._bus.unlock()": the lock state after the clause
unlock_finally(locked, raising) == FALSE

\* faulty variant of who_am_i: any identity byte is accepted
who_am_i_any(rec) == TRUE

\* who_am_i: "if (0x05) == rec: bRet = True"
who_am_i(rec) == rec = WhoAmI

\* the first byte the device returns for a read of register
device_byte(chip, register) ==
    IF register = 0 THEN chip.id ELSE IF register = 1 THEN chip.revision ELSE 0

\* the object once __init__ has returned on a device that identifies itself
ImuReady(chip) ==
    [chip |-> chip, state |-> "ready", call |-> FirstReadCall, step |-> "call",
     locked |-> FALSE, raising |-> FALSE, rx |-> 0, rev |-> chip.revision,
     written |-> ConfigWrites]

\* the object when __init__ starts: the bus is created unlocked, nothing written
ImuStart(chip) ==
    [chip |-> chip, state |-> "init", call |-> 1, step |-> "call",
     locked |-> FALSE, raising |-> FALSE, rx |-> 0, rev |-> 0, written |-> <<>>]

(* ------------------------------ sensor -------------------------------- *)

\* The twelve output bytes of the QMI8658 at registers 0x35..0x40, as
\* _read_block(0x35,12) returns them: register word i (0-based) is sent low
\* byte first.
read_block(regs) == [k \in 0..11 |-> IF k % 2 = 0 THEN regs[(k \div 2) + 1] % 256
                                    ELSE regs[(k \div 2) + 1] \div 256]

\* xyz[i] = (raw_xyz[(i*2)+1]<<8)|(raw_xyz[i*2]); if xyz[i] >= 32767: xyz[i] -= 65535
decode_word(hi, lo) ==
    LET u == hi * 256 + lo
    IN  IF u >= SignThreshold THEN u - SignOffset ELSE u

read_raw_xyz(regs) ==
    LET raw_xyz == read_block(regs)
    IN  [i \in 1..6 |-> decode_word(raw_xyz[((i - 1) * 2) + 1], raw_xyz[(i - 1) * 2])]

(* ---------------------------- calibration ----------------------------- *)
\* read_xyz divides the raw accel words by acc_lsb_div and the raw gyro words
\* by gyro_lsb_div; _update_accelerometer adds the offsets (hundredths) and
\* converts with int().  The arithmetic is done here on exact fractions:
\*   int((r/4096 + b/100) * s) = TruncDiv((100 r + 4096 b) * s, 100 * 4096)
\* (no raw word puts the exact value on an integer boundary).

calibrate_accel(r, bias, scale) ==
    TruncDiv((100 * r + acc_lsb_div * bias) * scale, 100 * acc_lsb_div)

calibrate_gyro(r, bias) ==
    TruncDiv(100 * r + gyro_lsb_div * bias, 100 * gyro_lsb_div)

\* faulty variant of calibrated_accel: the bias and scale steps work on self.accel
\* in place, so the previous reading carries over into the new one
calibrated_accel_carries_over(raw) ==
    [x |-> calibrate_accel(raw[2], AccelBiasX, 10) + accel.x,
     y |-> calibrate_accel(raw[1], AccelBiasY, -10) + accel.y,
     z |-> calibrate_accel(raw[3], AccelBiasZ, 10) + accel.z]

\* accel['x'] = xyz[1], accel['y'] = xyz[0], accel['z'] = xyz[2]; += bias; int(* 10)
calibrated_accel(raw) ==
    [x |-> calibrate_accel(raw[2], AccelBiasX, 10),
     y |-> calibrate_accel(raw[1], AccelBiasY, -10),
     z |-> calibrate_accel(raw[3], AccelBiasZ, 10)]

\* gyro['x'] = xyz[3] - 5.58, gyro['y'] = xyz[4] + 45.55, gyro['z'] = xyz[5] - 0.20; int()
calibrated_gyro(raw) ==
    [x |-> calibrate_gyro(raw[4], -GyroBiasX),
     y |-> calibrate_gyro(raw[5], GyroBiasY),
     z |-> calibrate_gyro(raw[6], -GyroBiasZ)]

(* ----------------------------- momentum ------------------------------- *)

\* faulty variants of clamp_momentum: the lower bound left out; the lower
\* bound clamped to the upper value
clamp_momentum_upper_only(v) == IF v > MomentumMax THEN MomentumMax ELSE v

clamp_momentum_wrong_sign(v) ==
    LET hi == IF v > MomentumMax THEN MomentumMax ELSE v
    IN  IF hi < MomentumMax * (-1) THEN MomentumMax ELSE hi

\* self.momentum[a] += accel[a]; if > max: = max; if < max*-1: = max*-1
clamp_momentum(v) ==
    LET hi == IF v > MomentumMax THEN MomentumMax ELSE v
    IN  IF hi < MomentumMax * (-1) THEN MomentumMax * (-1) ELSE hi

update_momentum(m, a) ==
    [x |-> clamp_momentum(m.x + a.x),
     y |-> clamp_momentum(m.y + a.y),
     z |-> clamp_momentum(m.z + a.z)]

(* ------------------------- tilt classification ------------------------ *)

\* faulty variant of tilt_labels: the z axis labelled like the x axis
tilt_labels_z_like_x(g) ==
    [x     |-> IF g.x > 0 THEN "right" ELSE IF g.x < 0 THEN "left" ELSE "center",
     y     |-> IF g.y > 0 THEN "up" ELSE IF g.y < 0 THEN "down" ELSE "center",
     twist |-> IF g.z > 0 THEN "right" ELSE IF g.z < 0 THEN "left" ELSE "center"]

\* self.tilt['x'], self.tilt['y'], self.tilt['twist']
tilt_labels(g) ==
    [x     |-> IF g.x > 0 THEN "right" ELSE IF g.x < 0 THEN "left" ELSE "center",
     y     |-> IF g.y > 0 THEN "up" ELSE IF g.y < 0 THEN "down" ELSE "center",
     twist |-> IF g.z > 0 THEN "left" ELSE IF g.z < 0 THEN "right" ELSE "center"]

\* 'tilt ' + label and 'twist ' + label
Tilt(label) ==
    CASE label = "right"  -> "tilt right"
      [] label = "left"   -> "tilt left"
      [] label = "up"     -> "tilt up"
      [] label = "down"   -> "tilt down"
      [] label = "center" -> "tilt center"

Twist(label) ==
    CASE label = "left"   -> "twist left"
      [] label = "right"  -> "twist right"
      [] label = "center" -> "twist center"

\* faulty variant of classify_tilt: >= where the code has >
classify_tilt_ge(g, t) ==
    IF Abs(g.x) >= Abs(g.y) /\ Abs(g.x) >= Abs(g.z) THEN Tilt(t.x)
    ELSE IF Abs(g.y) >= Abs(g.x) /\ Abs(g.y) >= Abs(g.z) THEN Tilt(t.y)
    ELSE IF Abs(g.z) >= Abs(g.x) /\ Abs(g.z) >= Abs(g.y) THEN Twist(t.twist)
    ELSE "resting"

\* the if/elif chain that picks the axis tilted the strongest
classify_tilt(g, t) ==
    IF Abs(g.x) > Abs(g.y) /\ Abs(g.x) > Abs(g.z) THEN Tilt(t.x)
    ELSE IF Abs(g.y) > Abs(g.x) /\ Abs(g.y) > Abs(g.z) THEN Tilt(t.y)
    ELSE IF Abs(g.z) > Abs(g.x) /\ Abs(g.z) > Abs(g.y) THEN Twist(t.twist)
    ELSE "resting"

(* ------------------------- command derivation ------------------------- *)

\* faulty variant of examined_pair: the two newest entries, [1] and [2]
examined_pair_newest(h) == <<h[2], h[3]>>

\* the two tilt_history entries the if/elif chain reads: [0] and [1]
examined_pair(h) == <<h[1], h[2]>>

\* faulty variant of derive_command: the first branch tests tilt_history[0] only
derive_command_first_only(p) ==
    IF p[1] = Str("tilt left") THEN "tilt left"
    ELSE IF p[1] = Str("tilt right") /\ p[2] = Str("tilt left") THEN "tilt right"
    ELSE IF p[1] = Str("tilt up") /\ p[2] = Str("tilt down") THEN "tilt up"
    ELSE IF p[1] = Str("tilt down") /\ p[2] = Str("tilt up") THEN "tilt down"
    ELSE IF p[1] = Str("twist left") /\ p[2] = Str("twist right") THEN "twist left"
    ELSE IF p[1] = Str("twist right") /\ p[2] = Str("twist left") THEN "twist right"
    ELSE "none"

\* cur_tilt_command['command'] of the local dict
derive_command(p) ==
    IF p[1] = Str("tilt left") /\ p[2] = Str("tilt right") THEN "tilt left"
    ELSE IF p[1] = Str("tilt right") /\ p[2] = Str("tilt left") THEN "tilt right"
    ELSE IF p[1] = Str("tilt up") /\ p[2] = Str("tilt down") THEN "tilt up"
    ELSE IF p[1] = Str("tilt down") /\ p[2] = Str("tilt up") THEN "tilt down"
    ELSE IF p[1] = Str("twist left") /\ p[2] = Str("twist right") THEN "twist left"
    ELSE IF p[1] = Str("twist right") /\ p[2] = Str("twist left") THEN "twist right"
    ELSE "none"

(* ----------------------- combination detection ------------------------ *)

\* faulty variant of pattern_matches: an age of exactly the window still matches
pattern_matches_le(h, c0, c1, c2, t) ==
    /\ h[1].command = c0
    /\ h[2].command = c1
    /\ h[3].command = c2
    /\ t - h[1].time <= CombinationWindow

\* one "if (...)" of the detector: three commands, oldest first, and the age
\* of the oldest at clock reading t
pattern_matches(h, c0, c1, c2, t) ==
    /\ h[1].command = c0
    /\ h[2].command = c1
    /\ h[3].command = c2
    /\ t - h[1].time < CombinationWindow

\* variant of detect_combination: the DUD check tests (tilt down, tilt up, tilt down)
detect_combination_dud_own_pattern(pending, h, t) ==
    LET lrl == IF pattern_matches(h, "twist left", "twist right", "twist left", t[1])
               THEN "LRL" ELSE pending
        rlr == IF pattern_matches(h, "twist right", "twist left", "twist right", t[2])
               THEN "RLR" ELSE lrl
        udu == IF pattern_matches(h, "tilt up", "tilt down", "tilt up", t[3])
               THEN "UDU" ELSE rlr
    IN  IF pattern_matches(h, "tilt down", "tilt up", "tilt down", t[4])
        THEN "DUD" ELSE udu

\* faulty variant of detect_combination: the RLR check copied from the LRL check
detect_combination_rlr_copied(pending, h, t) ==
    LET a == IF pattern_matches(h, "twist left", "twist right", "twist left", t[1])
             THEN "LRL" ELSE pending
        b == IF pattern_matches(h, "twist left", "twist right", "twist left", t[2])
             THEN "RLR" ELSE a
        c == IF pattern_matches(h, "tilt up", "tilt down", "tilt up", t[3])
             THEN "UDU" ELSE b
    IN  IF pattern_matches(h, "tilt up", "tilt down", "tilt up", t[4])
        THEN "DUD" ELSE c

\* the four ifs in source order; t is the sequence of their four clock readings
detect_combination(pending, h, t) ==
    LET a == IF pattern_matches(h, "twist left", "twist right", "twist left", t[1])
             THEN "LRL" ELSE pending
        b == IF pattern_matches(h, "twist right", "twist left", "twist right", t[2])
             THEN "RLR" ELSE a
        c == IF pattern_matches(h, "tilt up", "tilt down", "tilt up", t[3])
             THEN "UDU" ELSE b
    IN  IF pattern_matches(h, "tilt up", "tilt down", "tilt up", t[4])
        THEN "DUD" ELSE c

(* --------------------------- sensor samples --------------------------- *)

\* the 16-bit two's complement register word of a signed reading
Reg(s) == s % 65536

\* board lying still: calibrated accel (0,0,0), calibrated gyro (0,0,0)
RestSample == <<Reg(0), Reg(0), Reg(-4506), Reg(384), Reg(-2944), Reg(0)>>

\* a sample with the accel words of RestSample and the given gyro words
GyroSample(gx, gy, gz) == <<Reg(0), Reg(0), Reg(-4506), Reg(gx), Reg(gy), Reg(gz)>>

\* a sample with the gyro words of RestSample and the given accel words
AccelSample(ax, ay, az) == <<Reg(ax), Reg(ay), Reg(az), Reg(384), Reg(-2944), Reg(0)>>

\* one rotation about each axis in each direction, rest, and a two-axis tie
\* the battery level while the gestures are exercised (about 4.03 V)
AdcRest == 40000

\* battery levels from below _min_voltage (33760) to above _max_voltage (41108)
AdcLow == 33000
AdcStep == 100
AdcGrid == { AdcLow + AdcStep * k : k \in 0..AdcPoints }

\* devices on the bus: the QMI8658 (identity 0x05) in two revisions, an absent
\* device (bus reads as 0xFF) and a foreign one
Chips == { [id |-> i, revision |-> r] : i \in {WhoAmI, 255, 0}, r \in {121, 124} }
BoardChip == [id |-> WhoAmI, revision |-> 124]

\* register words around the sign boundary, the byte boundary and the ends of
\* the 16-bit range
DecodeWords ==
    {0, 1, 255, 256, SignThreshold - 256, SignThreshold - 1, SignThreshold,
     SignThreshold + 1, SignThreshold + 257, SignOffset - 256, SignOffset - 1, SignOffset}

\* the rest sample with one of its six words replaced
DecodeSamples == { [RestSample EXCEPT ![i] = w] : i \in 1..6, w \in DecodeWords }

GestureSamples ==
    { RestSample,
      GyroSample(448, -2944, 0), GyroSample(256, -2944, 0),
      GyroSample(384, -2816, 0), GyroSample(384, -3008, 0),
      GyroSample(384, -2944, 128), GyroSample(384, -2944, -64),
      GyroSample(448, -2816, 0) }

\* rest and a rotation about the z axis in each direction
TwistSamples == { RestSample, GyroSample(384, -2944, 128), GyroSample(384, -2944, -64) }

\* every combination of calibrated gyro values in -GyroMag..GyroMag
GyroGrid ==
    { GyroSample(384 + 64 * i, -2944 + 64 * j, 64 * k) :
        i \in -(GyroMag + 1)..GyroMag, j \in -GyroMag..(GyroMag + 1),
        k \in -GyroMag..(GyroMag + 1) }

\* -AccMag..AccMag g on the x and y axes, two readings of the z axis
AccelGrid ==
    { AccelSample(acc_lsb_div * i, acc_lsb_div * j, az) :
        i \in -AccMag..AccMag, j \in -AccMag..AccMag, az \in {-12698, 3686} }

(* -------------------------------- Init -------------------------------- *)

\* wsRP2040128.__init__ (initAccel=True); Battery.__init__ ends with _update()
BoardBuilt ==
    /\ menu = [pc |-> "menu", com |-> "", selection |-> 0, selector |-> SelectorTop,
               produced |-> <<>>]
    /\ gate = [clock |-> 0, time |-> 0, read |-> 0, ran |-> FALSE]
    /\ battery = Battery_update(adc)
    /\ now = 0
    /\ accel = [x |-> 0, y |-> 0, z |-> 0]
    /\ momentum = [x |-> 0, y |-> 0, z |-> 0]
    /\ gyro = [x |-> 0, y |-> 0, z |-> 0]
    /\ tilt = [x |-> "none", y |-> "none", twist |-> "none"]
    /\ tilt_state = StateDict("resting", now)
    /\ tilt_history = <<StateDict("resting", now), StateDict("resting", now),
                        StateDict("resting", now)>>
    /\ cur_tilt_command = CommandDict("none", now)
    /\ tilt_command_history = <<CommandDict("none", now), CommandDict("none", now),
                                CommandDict("none", now)>>
    /\ combination = ""
    /\ loc = [raw |-> <<>>, tilt_state |-> "", pair |-> <<>>, command |-> "",
              history |-> <<>>, t |-> <<>>, pending |-> ""]
    /\ last = "init"

\* the board object with its sensor driver constructed
Constructed == imu = ImuReady(BoardChip) /\ BoardBuilt

Init == sensor = RestSample /\ adc = AdcRest /\ Constructed

(* ------------------------------ the tick ------------------------------ *)

\* the time.monotonic() calls of one _update_accelerometer call, in order:
\* 1 the command's stamp, 2..5 the four combination checks, 6..8 the stamps of
\* the cleared history
ClockReads == 8

\* reading k of a call during which the clock passes a whole second just
\* before reading number jump (jump = 1: between the previous call and this
\* one; jump = 0: no second boundary)
ClockRead(k, jump) == IF jump # 0 /\ k >= jump THEN now + 1 ELSE now

\* faulty variant of clear_history: only the two oldest entries are replaced
clear_history_keeps_newest(comb, commands, jump) ==
    IF comb # ""
    THEN <<CommandDict("none", ClockRead(6, jump)),
           CommandDict("none", ClockRead(7, jump)),
           commands[3]>>
    ELSE commands

\* faulty variant of clear_history: the history is cleared only by the tick that
\* newly sets the combination
clear_history_on_change(comb, commands, jump) ==
    IF comb # "" /\ comb # combination
    THEN <<CommandDict("none", ClockRead(6, jump)),
           CommandDict("none", ClockRead(7, jump)),
           CommandDict("none", ClockRead(8, jump))>>
    ELSE commands

\* "if self.combination != '':" the history becomes three 'none' entries, each
\* stamped by its own clock reading
clear_history(comb, commands, jump) ==
    IF comb # ""
    THEN <<CommandDict("none", ClockRead(6, jump)),
           CommandDict("none", ClockRead(7, jump)),
           CommandDict("none", ClockRead(8, jump))>>
    ELSE commands

\* faulty variant of tilt_changed: every tick appends
tilt_changed_always(new_state) == TRUE

\* "if(tilt_state != self.tilt_state)": the local str against the attribute
tilt_changed(new_state) == Str(new_state) # tilt_state

\* faulty variant of push_command: no test for 'none'
push_command_also_none(command) == command # cur_tilt_command.command

\* faulty variant of push_command: no comparison with the current command
push_command_no_debounce(command) == command # "none"

\* "if cur_tilt_command['command'] != 'none'" and
\* "if cur_tilt_command['command'] != self.cur_tilt_command['command']"
push_command(command) == command # "none" /\ command # cur_tilt_command.command

\* faulty variant of kept_command: the attribute takes the local on every tick,
\* also when it is 'none'
kept_command_unconditional(push, new) == new

\* "self.cur_tilt_command = cur_tilt_command" inside the two tests of the push;
\* no other statement of the tick assigns the attribute
kept_command(push, new) == IF push THEN new ELSE cur_tilt_command

\* faulty variant of update_accelerometer: the command is derived before the
\* tilt history is updated, from the history the previous tick left
update_accelerometer_stale_history(sample, jump) ==
    \E raw \in {read_raw_xyz(sample)} :
    \E a \in {calibrated_accel(raw)}, g \in {calibrated_gyro(raw)} :
    \E labels \in {tilt_labels(g)} :
    \E new_state \in {classify_tilt(g, labels)} :
    \E changed \in {tilt_changed(new_state)} :
    \E history \in {IF changed THEN Push(tilt_history, Str(new_state)) ELSE tilt_history} :
    \E pair \in {examined_pair(tilt_history)} :
    \E command \in {derive_command(pair)} :
    \E new \in {CommandDict(command, ClockRead(1, jump))} :
    \E push \in {push_command(command)} :
    \E commands \in {IF push THEN Push(tilt_command_history, new) ELSE tilt_command_history} :
    \E t \in {[k \in 1..4 |-> ClockRead(k + 1, jump)]} :
    \E comb \in {detect_combination(combination, commands, t)} :
        /\ accel' = a
        /\ gyro' = g
        /\ momentum' = update_momentum(momentum, a)
        /\ tilt' = labels
        /\ tilt_state' = IF changed THEN Str(new_state) ELSE tilt_state
        /\ tilt_history' = history
        /\ cur_tilt_command' = kept_command(push, new)
        /\ combination' = comb
        /\ tilt_command_history' = clear_history(comb, commands, jump)
        /\ now' = ClockRead(ClockReads, jump)
        /\ loc' = [raw |-> raw, tilt_state |-> new_state, pair |-> pair,
                   command |-> command, history |-> commands, t |-> t,
                   pending |-> combination]
        /\ last' = "tick"
        /\ sensor' = sample

\* wsRP2040128._update_accelerometer, the sensor presenting the words of sample.
\* Each local is bound once, in the order the code computes it.
update_accelerometer(sample, jump) ==
    \E raw \in {read_raw_xyz(sample)} :
    \E a \in {calibrated_accel(raw)}, g \in {calibrated_gyro(raw)} :
    \E labels \in {tilt_labels(g)} :
    \E new_state \in {classify_tilt(g, labels)} :
    \E changed \in {tilt_changed(new_state)} :
    \E history \in {IF changed THEN Push(tilt_history, Str(new_state)) ELSE tilt_history} :
    \E pair \in {examined_pair(history)} :
    \E command \in {derive_command(pair)} :
    \E new \in {CommandDict(command, ClockRead(1, jump))} :
    \E push \in {push_command(command)} :
    \E commands \in {IF push THEN Push(tilt_command_history, new) ELSE tilt_command_history} :
    \E t \in {[k \in 1..4 |-> ClockRead(k + 1, jump)]} :
    \E comb \in {detect_combination(combination, commands, t)} :
        /\ accel' = a
        /\ gyro' = g
        /\ momentum' = update_momentum(momentum, a)
        /\ tilt' = labels
        /\ tilt_state' = IF changed THEN Str(new_state) ELSE tilt_state
        /\ tilt_history' = history
        /\ cur_tilt_command' = kept_command(push, new)
        /\ combination' = comb
        /\ tilt_command_history' = clear_history(comb, commands, jump)
        /\ now' = ClockRead(ClockReads, jump)
        /\ loc' = [raw |-> raw, tilt_state |-> new_state, pair |-> pair,
                   command |-> command, history |-> commands, t |-> t,
                   pending |-> combination]
        /\ last' = "tick"
        /\ sensor' = sample

\* wsRP2040128._update_battery: the getters of Battery run _update on the pin's
\* level
update_battery(value) ==
    /\ adc' = value
    /\ battery' = Battery_update(value)

\* wsRP2040128.update: _update_accelerometer on a sample of S, the clock passing at
\* most one second boundary during the call, then _update_battery on the pin's
\* level
update(sample, jump) == update_accelerometer(sample, jump) /\ update_battery(adc)

\* update() on a sample of S
Tick(S) ==
    \E sample \in S, jump \in 0..ClockReads :
        /\ jump # 0 => now + 1 <= MaxTime
        /\ update(sample, jump)
        /\ UNCHANGED <<imu, menu, gate>>

\* the same with no second boundary inside the call
QuickTick(S) == \E sample \in S : update(sample, 0) /\ UNCHANGED <<imu, menu, gate>>

\* the battery read on its own (wsRP2040128._update_battery), the pin at any level
\* of the grid
read_battery ==
    /\ \E value \in AdcGrid : update_battery(value)
    /\ last' = "battery"
    /\ UNCHANGED <<sensor, now, accel, gyro, momentum, tilt, tilt_state, tilt_history,
                   cur_tilt_command, tilt_command_history, combination, imu, menu, gate,
                   loc>>

(* ----------------------------- bus calls ------------------------------ *)
\* One bus call of BusCalls step by step; a transfer may raise (OSError when the
\* device does not acknowledge).

\* "while not self._bus.try_lock(): pass": the call goes on once the lock is taken
try_lock ==
    /\ imu.state \in {"init", "ready"}
    /\ imu.step = "call"
    /\ ~imu.locked
    /\ imu' = [imu EXCEPT !.locked = TRUE, !.step = "writeto"]
    /\ UNCHANGED <<board, menu, gate>>

\* self._bus.writeto(...): the register address (and the value, for a write)
writeto ==
    /\ imu.step = "writeto"
    /\ \E ok \in BOOLEAN :
          imu' = IF ~ok THEN [imu EXCEPT !.raising = TRUE, !.step = "unlock"]
                 ELSE IF BusCalls[imu.call].op = "write"
                 THEN [imu EXCEPT !.step = "unlock",
                                  !.written = Append(@, <<BusCalls[imu.call].register,
                                                          BusCalls[imu.call].arg>>)]
                 ELSE [imu EXCEPT !.step = "readfrom"]
    /\ UNCHANGED <<board, menu, gate>>

\* self._bus.readfrom_into(self._address, rx)
readfrom ==
    /\ imu.step = "readfrom"
    /\ \E ok \in BOOLEAN :
          imu' = IF ~ok THEN [imu EXCEPT !.raising = TRUE, !.step = "unlock"]
                 ELSE [imu EXCEPT !.step = "unlock",
                                  !.rx = device_byte(imu.chip, BusCalls[imu.call].register)]
    /\ UNCHANGED <<board, menu, gate>>

\* the finally clause
unlock ==
    /\ imu.step = "unlock"
    /\ imu' = [imu EXCEPT !.locked = unlock_finally(imu.locked, imu.raising),
                          !.step = "return"]
    /\ UNCHANGED <<board, menu, gate>>

\* the call ends: an error raised by a transfer leaves __init__ or read_raw_xyz
\* unhandled; who_am_i's result decides between read_revision and the raise of
\* "QMI8658 not found"; otherwise the next call of the program follows
call_ends ==
    /\ imu.step = "return"
    /\ imu' =
         IF imu.raising THEN [imu EXCEPT !.state = "error", !.step = "call"]
         ELSE IF imu.call = 1 /\ ~who_am_i(imu.rx)
         THEN [imu EXCEPT !.state = "not found", !.step = "call"]
         ELSE IF imu.call = 2
         THEN [imu EXCEPT !.rev = imu.rx, !.call = 3, !.step = "call"]
         ELSE IF imu.call = LastInitCall
         THEN [imu EXCEPT !.state = "ready", !.call = FirstReadCall, !.step = "call"]
         ELSE IF imu.call = Len(BusCalls)
         THEN [imu EXCEPT !.call = FirstReadCall, !.step = "call"]
         ELSE [imu EXCEPT !.call = @ + 1, !.step = "call"]
    /\ UNCHANGED <<board, menu, gate>>

(* ------------------------------ time gate ----------------------------- *)
\* demo's loop, with time.monotonic() read in hundredths of a second; GateClock
\* is below one second, so the whole-second clock of the tick stays where it is.

\* faulty variant of demo_gate: the boundary passes the gate
demo_gate_inclusive(time, interval, t) == time + interval <= t

\* "if(self.time + sleep_time) < time.monotonic():"
demo_gate(time, interval, t) == time + interval < t

\* one pass of demo's "while True" with the board at rest: the gate is read d
\* hundredths after the previous clock reading; when it is open update() runs and
\* self.time takes a new clock reading, e hundredths later
demo_pass ==
    \E d \in 0..GateStep, e \in 0..1 :
    \E t \in {gate.clock + d} :
        /\ t + e <= GateClock
        /\ IF demo_gate(gate.time, sleep_time, t)
           THEN /\ update(RestSample, 0)
                /\ gate' = [clock |-> t + e, time |-> t + e, read |-> t, ran |-> TRUE]
           ELSE /\ e = 0
                /\ gate' = [clock |-> t, time |-> gate.time, read |-> t, ran |-> FALSE]
                /\ UNCHANGED board
        /\ UNCHANGED <<imu, menu>>

(* -------------------------------- menu -------------------------------- *)
\* main_menu and the loops it calls, position by position.  menu.pc is "menu"
\* at the top of main_menu's loop, "menu_update" before its self.update(), and
\* inside a loop the loop's name before its update and name + "_check" before
\* its "if(self.combination == 'LRL')".

\* choices = ['Banner', 'Settings', 'Games', 'Off']
choices == <<"Banner", "Settings", "Games", "Off">>

\* faulty variant of select: no wrap-around
select_unwrapped(selection) == selection

\* faulty variant of selector_y: one row is 10 high
selector_y_half_row(selection) == SelectorTop + selection * 10

\* "self.sprites['selector'].y = 100 + (selection * 20)"
selector_y(selection) == SelectorTop + selection * SelectorRow

\* select(selection, choices), the wrap-around
select(selection) ==
    IF selection >= Len(choices) THEN 0
    ELSE IF selection < 0 THEN Len(choices) - 1
    ELSE selection

\* the loop RLR starts: banner_demo, demo, ball_demo, demo
screen_of(selection) ==
    CASE selection = 0 -> "banner"
      [] selection = 1 -> "demo"
      [] selection = 2 -> "ball"
      [] selection = 3 -> "demo"

LoopPcs == {"banner", "demo", "ball", "ball_update"}
CheckPcs == {"banner_check", "demo_check", "ball_check"}

\* faulty variant of loop_exits: any combination ends the loop
loop_exits_on_any(com) == com # ""

\* "if(self.combination == 'LRL'):"
loop_exits(com) == com = "LRL"

\* the top of main_menu's loop down to its self.update(): the combination is
\* taken and acted on; RLR calls the loop of the current selection
menu_read ==
    /\ menu.pc = "menu"
    /\ combination' = ""
    /\ \E sel \in {IF combination = "UDU" THEN select(menu.selection - 1)
                   ELSE IF combination = "DUD" THEN select(menu.selection + 1)
                   ELSE menu.selection} :
          menu' = [pc |-> IF combination = "RLR" THEN screen_of(sel) ELSE "menu_update",
                   com |-> combination,
                   selection |-> sel,
                   selector |-> IF combination \in {"UDU", "DUD"}
                                THEN selector_y(sel) ELSE menu.selector,
                   produced |-> <<>>]
    /\ last' = "menu"
    /\ UNCHANGED <<sensor, now, accel, gyro, momentum, tilt, tilt_state, tilt_history,
                   cur_tilt_command, tilt_command_history, imu, gate, adc, battery, loc>>

\* main_menu's self.update(); the clock may pass one second during it, at one of
\* the reads in Jumps, as long as it stays within limit
menu_update(S, Jumps, limit) ==
    /\ menu.pc = "menu_update"
    /\ \E sample \in S, jump \in Jumps :
          /\ jump # 0 => now + 1 <= limit
          /\ update(sample, jump)
    /\ menu' = [menu EXCEPT !.pc = "menu"]
    /\ UNCHANGED <<imu, gate>>

\* ball_demo moves the ball; when it left the table the momentum is reset (the
\* ball's position is not modelled: either branch may be taken)
ball_move ==
    /\ menu.pc = "ball"
    /\ \E hit \in BOOLEAN :
          momentum' = IF hit THEN [momentum EXCEPT !.x = 0, !.y = 0] ELSE momentum
    /\ menu' = [menu EXCEPT !.pc = "ball_update"]
    /\ last' = "move"
    /\ UNCHANGED <<sensor, now, accel, gyro, tilt, tilt_state, tilt_history,
                   cur_tilt_command, tilt_command_history, combination, imu, gate, adc,
                   battery, loc>>

\* the self.update() of banner_demo, ball_demo and demo (its gate open);
\* menu.produced keeps the last three commands pushed since the loop started
loop_update(S) ==
    /\ menu.pc \in {"banner", "demo", "ball_update"}
    /\ \E sample \in S : update(sample, 0)
    /\ menu' = [menu EXCEPT
                  !.pc = IF menu.pc = "ball_update" THEN "ball_check"
                         ELSE IF menu.pc = "demo" THEN "demo_check" ELSE "banner_check",
                  !.produced = IF cur_tilt_command' # cur_tilt_command
                               THEN Push(@, cur_tilt_command') ELSE @]
    /\ UNCHANGED <<imu, gate>>

\* a pass of demo's loop with the gate closed: no update
demo_skip ==
    /\ menu.pc = "demo"
    /\ menu' = [menu EXCEPT !.pc = "demo_check"]
    /\ last' = "skip"
    /\ UNCHANGED <<sensor, now, accel, gyro, momentum, tilt, tilt_state, tilt_history,
                   cur_tilt_command, tilt_command_history, combination, imu, gate, adc,
                   battery, loc>>

\* the loop's "if(self.combination == 'LRL'): self.combination = ''; ...; break":
\* back in main_menu the call has returned and self.update() is next
loop_check ==
    /\ menu.pc \in CheckPcs
    /\ IF loop_exits(combination)
       THEN /\ combination' = ""
            /\ menu' = [menu EXCEPT !.pc = "menu_update"]
            /\ last' = "exit"
       ELSE /\ combination' = combination
            /\ menu' = [menu EXCEPT
                          !.pc = IF menu.pc = "ball_check" THEN "ball"
                                 ELSE IF menu.pc = "demo_check" THEN "demo" ELSE "banner"]
            /\ last' = "check"
    /\ UNCHANGED <<sensor, now, accel, gyro, momentum, tilt, tilt_state, tilt_history,
                   cur_tilt_command, tilt_command_history, imu, gate, adc, battery, loc>>

(* ------------------------------ consumer ------------------------------ *)

\* ball_demo's wall collision (also old_menu's reset_cursor):
\* self.momentum['x'] = 0; self.momentum['y'] = 0
collision_reset ==
    /\ momentum' = [momentum EXCEPT !.x = 0, !.y = 0]
    /\ last' = "collision"
    /\ UNCHANGED <<sensor, now, accel, gyro, tilt, tilt_state, tilt_history,
                   cur_tilt_command, tilt_command_history, combination, imu, menu, gate,
                   adc, battery, loc>>

\* the consumer takes the event: main_menu's "if(com != ''): self.combination = ''",
\* the demos' "if(self.combination == 'LRL'): self.combination = ''"
clear_combination ==
    /\ combination # ""
    /\ combination' = ""
    /\ last' = "consume"
    /\ UNCHANGED <<sensor, now, accel, gyro, momentum, tilt, tilt_state, tilt_history,
                   cur_tilt_command, tilt_command_history, imu, menu, gate, adc, battery,
                   loc>>

(* --------------------------- specifications --------------------------- *)

\* the recogniser on every order of the gesture samples and consumer reads, all
\* within one second of the clock
TickGesture == QuickTick(GestureSamples)
Next == TickGesture \/ clear_combination
Spec == Init /\ [][Next]_vars

\* the recogniser on twists about the z axis with the clock running
TickTwist == Tick(TwistSamples)
NextTwist == TickTwist \/ clear_combination
SpecTwist == Init /\ [][NextTwist]_vars

\* the classifier on every gyro reading of the grid, the board held in that rotation
InitClassify == sensor \in GyroGrid /\ adc = AdcRest /\ Constructed
TickHeld == QuickTick({sensor})
NextClassify == TickHeld
SpecClassify == InitClassify /\ [][NextClassify]_vars

\* the momentum tracker under every order of accel samples, ticks and collisions
TickAccel == QuickTick(AccelGrid)
NextMomentum == TickAccel \/ collision_reset
SpecMomentum == Init /\ [][NextMomentum]_vars

\* the recogniser on nods about the y axis (tilt up, tilt down) with the clock
\* running
NodSamples == { RestSample, GyroSample(384, -2816, 0), GyroSample(384, -3008, 0) }
TickNod == Tick(NodSamples)
NextNod == TickNod \/ clear_combination
SpecNod == Init /\ [][NextNod]_vars

\* the battery gauge on every level of the grid
NextBattery == read_battery
SpecBattery == Init /\ [][NextBattery]_vars

\* the calibration under ticks on samples that move accel and gyro together,
\* collisions and consumer reads, so that the same sample is read in states
\* that differ in momentum, histories, current command and combination
CalibrationSamples ==
    { RestSample,
      <<Reg(4096), Reg(0), Reg(-4506), Reg(384), Reg(-2944), Reg(128)>>,
      <<Reg(0), Reg(-4096), Reg(-4506), Reg(384), Reg(-2944), Reg(-64)>>,
      <<Reg(-4096), Reg(4096), Reg(3686), Reg(384), Reg(-2944), Reg(128)>> }
TickCalibration == QuickTick(CalibrationSamples)
NextCalibration == TickCalibration \/ collision_reset \/ clear_combination
SpecCalibration == Init /\ [][NextCalibration]_vars

\* the decoder and everything behind it on each sample of DecodeSamples, held
InitDecode == sensor \in DecodeSamples /\ adc = AdcRest /\ Constructed
NextDecode == TickHeld
SpecDecode == InitDecode /\ [][NextDecode]_vars

\* the sensor driver from the start of its __init__, call by call, on every
\* device of Chips and with every transfer free to raise
InitBus == imu \in { ImuStart(chip) : chip \in Chips } /\ sensor = RestSample
           /\ adc = AdcRest /\ BoardBuilt
NextBus == try_lock \/ writeto \/ readfrom \/ unlock \/ call_ends
SpecBus == InitBus /\ [][NextBus]_vars

\* demo's time gate under every pacing of the loop
NextGate == demo_pass
SpecGate == Init /\ [][NextGate]_vars

\* main_menu and its loops on twists and nods, all within one second of the clock
MenuSamples == TwistSamples \cup NodSamples
MenuUpdate == menu_update(MenuSamples, {0}, MaxTime)
LoopUpdate == loop_update(MenuSamples)
NextMenu == menu_read \/ MenuUpdate \/ LoopUpdate \/ ball_move \/ demo_skip \/ loop_check
SpecMenu == Init /\ [][NextMenu]_vars

\* main_menu left alone: the board at rest while the clock runs past the time
\* its comment gives for the automatic selection
IdleUpdate == menu_update({RestSample}, 0..ClockReads, IdleTime)
NextIdle == menu_read \/ IdleUpdate
SpecIdle == Init /\ [][NextIdle]_vars

\* main_menu on nods, the clock running: a second boundary between the UDU test
\* and the DUD test of a tick leaves UDU standing
SelectUpdate == menu_update(NodSamples, 0..ClockReads, MaxTime)
NextSelect == menu_read \/ SelectUpdate
SpecSelect == Init /\ [][NextSelect]_vars

(* ------------------------------ claims -------------------------------- *)

Axes == {"x", "y", "z"}

\* axis a has a strictly greater absolute value than both other axes
Dominant(g, a) == \A b \in Axes \ {a} : Abs(g[a]) > Abs(g[b])

\* C1: the tilt state a tick computes is 'resting' exactly when no axis of the
\* calibrated gyro triple is strictly greater in absolute value than both others.
C1_RestingIffNoDominantAxis ==
    last = "tick" =>
        (loc.tilt_state = "resting" <=> ~ \E a \in Axes : Dominant(gyro, a))

\* a two-way tie for the maximum, away from zero, classified as resting
C1_Witness ==
    /\ last = "tick"
    /\ Abs(gyro.x) = 2 /\ Abs(gyro.y) = 2 /\ Abs(gyro.z) = 1
    /\ loc.tilt_state = "resting"

\* C2: with one axis strictly dominant, the tilt state names that axis and the
\* sign of its reading: x right/left, y up/down, z twist left/twist right.
C2_DominantAxisNamesState ==
    last = "tick" =>
        /\ Dominant(gyro, "x") /\ gyro.x > 0 => loc.tilt_state = "tilt right"
        /\ Dominant(gyro, "x") /\ gyro.x < 0 => loc.tilt_state = "tilt left"
        /\ Dominant(gyro, "y") /\ gyro.y > 0 => loc.tilt_state = "tilt up"
        /\ Dominant(gyro, "y") /\ gyro.y < 0 => loc.tilt_state = "tilt down"
        /\ Dominant(gyro, "z") /\ gyro.z > 0 => loc.tilt_state = "twist left"
        /\ Dominant(gyro, "z") /\ gyro.z < 0 => loc.tilt_state = "twist right"

\* z strictly dominant and negative, the other axes non-zero: twist right
C2_Witness ==
    /\ last = "tick"
    /\ gyro.z = -2 /\ gyro.x = 1 /\ gyro.y = -1
    /\ loc.tilt_state = "twist right"

\* C3: every momentum axis stays within -max..max under ticks and collision resets.
C3_MomentumBounded ==
    \A a \in Axes : -MomentumMax <= momentum[a] /\ momentum[a] <= MomentumMax

\* a collision reset after a tick whose z acceleration was cut at the lower bound
C3_Witness ==
    /\ last = "collision"
    /\ momentum.x = 0 /\ momentum.y = 0
    /\ accel.z < -MomentumMax /\ momentum.z = -MomentumMax

\* C4: a tick changes no momentum axis by more than that tick's |accel[axis]|.
C4_MomentumStepBounded ==
    [][last' = "tick" =>
          \A a \in Axes : Abs(momentum'[a] - momentum[a]) <= Abs(accel'[a])]_vars

\* a tick that cut z at the upper bound and left y at the lower bound
C4_Witness ==
    /\ last = "tick"
    /\ accel.y < 0 /\ momentum.y = -MomentumMax
    /\ accel.z > MomentumMax /\ momentum.z = MomentumMax

\* C5 as claimed: no two adjacent TiltHistory entries hold the same tilt state,
\* from construction onward.
C5_Original ==
    \A i \in 1..2 : tilt_history[i].state # tilt_history[i + 1].state

\* C5 as amended: two adjacent TiltHistory entries that were both appended by
\* ticks (str entries, not the dicts of the constructor) hold different states.
C5_AppendedNeighboursDiffer ==
    \A i \in 1..2 :
        tilt_history[i].kind = "str" /\ tilt_history[i + 1].kind = "str"
            => tilt_history[i].state # tilt_history[i + 1].state

\* the three constructor entries have been pushed out by three appends
C5_Witness ==
    /\ last = "tick"
    /\ \A i \in 1..3 : tilt_history[i].kind = "str"
    /\ tilt_history[1].state = tilt_history[3].state

\* C6 as claimed: no two adjacent CommandHistory entries hold the same command,
\* from construction onward.
C6_Original ==
    \A i \in 1..2 : tilt_command_history[i].command # tilt_command_history[i + 1].command

\* C6 as amended: two adjacent CommandHistory entries hold the same command only
\* when both are the 'none' placeholders of construction or of the clear.
C6_EqualNeighboursAreNone ==
    \A i \in 1..2 :
        tilt_command_history[i].command = tilt_command_history[i + 1].command
            => tilt_command_history[i].command = "none"

\* two commands pushed one after the other
C6_Witness ==
    /\ last = "tick"
    /\ tilt_command_history[2].command # "none"
    /\ tilt_command_history[3].command # "none"

\* the six antiparallel pairs; the command is named after the first of the pair
AntiparallelPairs ==
    { <<"tilt left", "tilt right">>, <<"tilt right", "tilt left">>,
      <<"tilt up", "tilt down">>, <<"tilt down", "tilt up">>,
      <<"twist left", "twist right">>, <<"twist right", "twist left">> }

\* C7: a tick derives the command named after the first entry of the examined
\* pair when that pair is one of the six antiparallel pairs, and 'none' for
\* every other pair.
C7_CommandOnlyForAntiparallelPairs ==
    last = "tick" =>
        IF \E p \in AntiparallelPairs : loc.pair = <<Str(p[1]), Str(p[2])>>
        THEN loc.command = loc.pair[1].state
        ELSE loc.command = "none"

\* the pair (tilt up, tilt down) examined: command tilt up
C7_Witness ==
    /\ last = "tick"
    /\ loc.pair = <<Str("tilt up"), Str("tilt down")>>
    /\ loc.command = "tilt up"

\* C8 as claimed: on the tick that records the opposite of the previous state,
\* the command of that newest pair is derived.
C8_Original ==
    [][(/\ last' = "tick"
        /\ tilt_history' # tilt_history
        /\ \E p \in AntiparallelPairs :
              tilt_history'[2] = Str(p[1]) /\ tilt_history'[3] = Str(p[2]))
           => loc'.command = tilt_history'[2].state]_vars

\* C8 as amended: the command a tick derives is determined by the oldest and the
\* middle TiltHistory entry (indexes 0 and 1) as they are after the tick's
\* append: a state followed by its opposite raises the command only while that
\* pair holds those two slots, that is after one more transition was recorded.
C8_CommandFromOldestPair ==
    last = "tick" =>
        /\ loc.pair = <<tilt_history[1], tilt_history[2]>>
        /\ loc.command # "none" =>
              /\ loc.command = tilt_history[1].state
              /\ <<tilt_history[1].state, tilt_history[2].state>> \in AntiparallelPairs

\* twist left, then twist right, then the return to rest: the command is
\* raised on the tick that records 'resting'
C8_Witness ==
    /\ last = "tick"
    /\ tilt_history = <<Str("twist left"), Str("twist right"), Str("resting")>>
    /\ loc.command = "twist left"
    /\ cur_tilt_command.command = "twist left"

\* the commands of a command history, oldest first
Commands(h) == [i \in 1..Len(h) |-> h[i].command]

\* C9: with no combination pending, a tick leaves combination = 'LRL' exactly
\* when the command history at detection is (twist left, twist right, twist
\* left) and the oldest entry is less than 2 seconds old at the LRL check.
C9_LRLIffPatternWithinWindow ==
    last = "tick" /\ loc.pending = "" =>
        (combination = "LRL" <=>
            /\ Commands(loc.history) = <<"twist left", "twist right", "twist left">>
            /\ loc.t[1] - loc.history[1].time < 2)

\* LRL fired on a history whose oldest entry was one second old
C9_Witness ==
    /\ last = "tick" /\ loc.pending = ""
    /\ combination = "LRL"
    /\ loc.t[1] - loc.history[1].time = 1

\* C10: with no combination pending, a tick leaves combination = 'RLR' exactly
\* when the command history at detection is (twist right, twist left, twist
\* right) and the oldest entry is less than 2 seconds old at the RLR check.
C10_RLRIffPatternWithinWindow ==
    last = "tick" /\ loc.pending = "" =>
        (combination = "RLR" <=>
            /\ Commands(loc.history) = <<"twist right", "twist left", "twist right">>
            /\ loc.t[2] - loc.history[1].time < 2)

\* RLR fired on a history whose oldest entry was one second old
C10_Witness ==
    /\ last = "tick" /\ loc.pending = ""
    /\ combination = "RLR"
    /\ loc.t[2] - loc.history[1].time = 1

\* C11: after a tick whose command history is (tilt up, tilt down, tilt up) with
\* the oldest entry younger than 2 seconds, the combination left for the
\* consumer is UDU.  The code leaves DUD: the DUD test repeats UDU's pattern and
\* overwrites it.
C11_NodLeavesUDU ==
    ( /\ last = "tick"
      /\ loc.pending = ""
      /\ Commands(loc.history) = <<"tilt up", "tilt down", "tilt up">>
      /\ loc.t[3] - loc.history[1].time < CombinationWindow )
    => combination = "UDU"

\* the combination tests a tick ran with no combination pending beforehand
FreshTick == last = "tick" /\ loc.pending = ""

\* C12: DUD is raised for UDU's pattern: with no combination pending, a tick
\* leaves DUD exactly when the history after its push is (tilt up, tilt down,
\* tilt up) and the oldest entry is younger than 2 seconds at the DUD test; and
\* a tick whose history is (tilt down, tilt up, tilt down) raises nothing.
C12_DUDRaisedForUDUPattern ==
    FreshTick =>
        /\ combination = "DUD" <=>
               /\ Commands(loc.history) = <<"tilt up", "tilt down", "tilt up">>
               /\ loc.t[4] - loc.history[1].time < CombinationWindow
        /\ Commands(loc.history) = <<"tilt down", "tilt up", "tilt down">>
               => combination = ""

\* DUD raised by a nod whose oldest command is one second old
C12_Witness ==
    /\ FreshTick
    /\ combination = "DUD"
    /\ Commands(loc.history) = <<"tilt up", "tilt down", "tilt up">>
    /\ loc.t[4] - loc.history[1].time = 1

\* every entry of h is a 'none' entry
AllNone(h) == \A i \in 1..Len(h) : h[i].command = "none"

\* every entry of h is stamped by a clock reading taken between lo and hi
StampedWithin(h, lo, hi) == \A i \in 1..Len(h) : lo <= h[i].time /\ h[i].time <= hi

\* C13: a tick that ends with a combination set leaves the command history as
\* three 'none' entries stamped with the clock readings of that moment (not
\* before the tick's last combination test, not after its end); and a tick that
\* starts from a history of three 'none' entries, as the tick following a
\* firing does, detects nothing: it leaves combination as it found it.
C13_FiringResetsHistory ==
    [][ last' = "tick" =>
          /\ combination' # "" =>
                /\ Len(tilt_command_history') = 3
                /\ AllNone(tilt_command_history')
                /\ StampedWithin(tilt_command_history', loc'.t[4], now')
          /\ AllNone(tilt_command_history) => combination' = combination ]_vars

\* the tick after a firing tick, the consumer having taken the event in between
\* and the tick pushing a command: nothing is detected
C13_Witness ==
    /\ last = "tick"
    /\ loc.pending = ""
    /\ combination = ""
    /\ Commands(loc.history) = <<"none", "none", "twist left">>
    /\ loc.history[1].time = 1
    /\ now = 2

\* C14: a tick that starts with a combination set leaves it as it is: no tick
\* clears it or replaces it by another combination; only the consumer sets it
\* back to ''.
C14_PendingCombinationKept ==
    [][ /\ last' = "tick" /\ combination # "" => combination' = combination
        /\ combination # "" /\ combination' # combination =>
              last' = "consume" /\ combination' = "" ]_vars

\* a tick that ran with RLR pending and pushed a command left RLR in place
C14_Witness ==
    /\ last = "tick"
    /\ loc.pending = "RLR"
    /\ combination = "RLR"
    /\ loc.command # "none"
    /\ cur_tilt_command.command = loc.command
    /\ loc.history[3].command = loc.command

C16_AppendOnlyOnChange ==
    [][ last' = "tick" /\ loc'.tilt_state = tilt_state.state =>
            tilt_history' = tilt_history ]_vars

\* C17: a derived command other than 'none' is pushed into the command history
\* only if it differs from the current (most recently pushed) command; a tick
\* that derives 'none' or the current command leaves the command history and
\* the current command unchanged.  While a combination is pending the tick
\* rewrites the history with freshly stamped 'none' entries all the same.
C17_NoPushLeavesHistory ==
    [][ last' = "tick" =>
          /\ cur_tilt_command' # cur_tilt_command =>
                /\ loc'.command # "none"
                /\ loc'.command # cur_tilt_command.command
          /\ loc'.command = "none" \/ loc'.command = cur_tilt_command.command =>
                /\ tilt_command_history' = tilt_command_history
                /\ cur_tilt_command' = cur_tilt_command ]_vars

TiltStates ==
    {"resting", "tilt up", "tilt down", "tilt left", "tilt right", "twist left",
     "twist right"}

TiltCommands ==
    {"none", "tilt up", "tilt down", "tilt left", "tilt right", "twist left",
     "twist right"}

\* C18: after every tick the tilt state is one of the seven states, never
\* 'tilt center' or 'twist center', and the current command is 'none' or one of
\* the six directional commands.
C18_ClassificationTotal ==
    last = "tick" =>
        /\ tilt_state \in { Str(st) : st \in TiltStates }
        /\ loc.tilt_state \in TiltStates
        /\ loc.command \in TiltCommands
        /\ cur_tilt_command.command \in TiltCommands

\* a tick on a gyro reading of (0, 0, 0), every label 'center', classified as
\* resting while a directional command is current
C18_Witness ==
    /\ last = "tick"
    /\ gyro = [x |-> 0, y |-> 0, z |-> 0]
    /\ tilt = [x |-> "center", y |-> "center", twist |-> "center"]
    /\ tilt_state = Str("resting")
    /\ cur_tilt_command.command = "tilt down"

\* C19: calibration is stateless: a tick that reads the same raw sample as the
\* tick before it yields the same calibrated accel and gyro, whatever momentum,
\* histories, current command and combination the two ticks started from.
C19_SameSampleSameReading ==
    [][ last' = "tick" /\ loc.tilt_state # "" /\ sensor' = sensor =>
            accel' = accel /\ gyro' = gyro ]_vars

\* a sample first read from the constructed state is read again with momentum at
\* its bound, a command current and a combination pending, and calibrates to the
\* same accel and gyro
C19_Witness ==
    /\ last = "tick"
    /\ sensor = <<Reg(4096), Reg(0), Reg(-4506), Reg(384), Reg(-2944), Reg(128)>>
    /\ accel = [x |-> 0, y |-> -10, z |-> 0]
    /\ gyro = [x |-> 0, y |-> 0, z |-> 1]
    /\ momentum = [x |-> 0, y |-> -MomentumMax, z |-> MomentumMax]
    /\ cur_tilt_command.command = "twist right"
    /\ loc.pending = "RLR"
    /\ combination = "RLR"

\* C20: the battery percentage is within [0, 100]; it is 0 below min_voltage,
\* 100 above max_voltage, and in between the linear map of the voltage that
\* takes min_voltage to 0 and max_voltage to 100.  (battery.percent / max_diff is
\* percent / 100.)  The code maps the range the other way round.
C20_PercentClampedAndLinear ==
    /\ 0 <= battery.percent /\ battery.percent <= max_diff
    /\ battery.voltage < MinVoltage => battery.percent = 0
    /\ battery.voltage > MaxVoltage => battery.percent = max_diff
    /\ MinVoltage <= battery.voltage /\ battery.voltage <= MaxVoltage =>
          battery.percent = battery.voltage - MinVoltage

\* C21: a bus call holds the lock during every transfer and has released it when
\* it ends, by return or by a raised error: the lock is never held outside a
\* call.
C21_LockScopedToCall ==
    /\ imu.step \in {"writeto", "readfrom"} => imu.locked
    /\ imu.step \in {"call", "return"} => ~imu.locked

\* a read whose transfer raised has ended, the error is on its way out of
\* read_raw_xyz and the lock is free
C21_Witness ==
    /\ imu.state = "error"
    /\ imu.raising
    /\ BusCalls[imu.call].op = "read"
    /\ imu.call >= FirstReadCall
    /\ ~imu.locked

\* C22: on a device whose identity register does not read 0x05 the constructor
\* never gets past who_am_i: no configuration register is written, the object
\* is never ready, and the end of the who_am_i read raises "not found";
\* configuration writes exist only after the identity byte read was 0x05.
C22_NoConfigWithoutIdentity ==
    /\ [](imu.chip.id # WhoAmI =>
            imu.written = <<>> /\ imu.call = 1 /\ imu.state # "ready")
    /\ [](imu.written # <<>> => imu.chip.id = WhoAmI /\ imu.call > 2)
    /\ [][ imu.step = "return" /\ imu.call = 1 /\ ~imu.raising /\ imu.chip.id # WhoAmI
              => imu'.state = "not found" ]_vars

\* the constructor has failed on an absent device (identity reads 0xFF) with
\* nothing written
C22_Witness ==
    /\ imu.state = "not found"
    /\ imu.chip.id = 255
    /\ imu.rx = 255
    /\ imu.written = <<>>
    /\ ~imu.locked

\* C23: each of the six raw values read_raw_xyz returns lies in [-32767, 32767].
\* The register word 0x7FFF decodes to -32768.
C23_RawWithinSymmetricRange ==
    last = "tick" =>
        \A i \in 1..6 : -32767 <= loc.raw[i] /\ loc.raw[i] <= 32767

\* C28: read_raw_xyz returns the two's-complement value of each register word:
\* u below 32768 gives u, u of 32768 or more gives u - 65536.  The code
\* subtracts 65535 from every word of 32767 or more.
C28_TwosComplementDecode ==
    last = "tick" =>
        \A i \in 1..6 :
            loc.raw[i] = IF sensor[i] < 32768 THEN sensor[i] ELSE sensor[i] - 65536

\* the command sequences the combination tests look for
CombinationPatterns ==
    { <<"twist left", "twist right", "twist left">>,
      <<"twist right", "twist left", "twist right">>,
      <<"tilt up", "tilt down", "tilt up">> }

\* C29: the command history is reset only by a tick in which a combination
\* pattern is detected; every other tick, also one that starts with a
\* combination not yet consumed, keeps the history as its push left it.  The
\* code resets the history on every tick that ends with combination set.
C29_ResetOnlyOnDetection ==
    [][ last' = "tick" /\ Commands(loc'.history) \notin CombinationPatterns =>
            tilt_command_history' = loc'.history ]_vars

\* C27: within one tick every stage works on what the stages before it produced
\* in that tick: momentum on the fresh accel, the classification on the fresh
\* gyro, the tilt history on the fresh state, the command on the history as
\* just updated, the push on that command, the combination tests on the history
\* as just pushed, and the clear on the combination as just set.
C27_StagesInOrder ==
    [][ last' = "tick" =>
          /\ loc'.raw = read_raw_xyz(sensor')
          /\ accel' = calibrated_accel(loc'.raw) /\ gyro' = calibrated_gyro(loc'.raw)
          /\ momentum' = update_momentum(momentum, accel')
          /\ tilt' = tilt_labels(gyro')
          /\ loc'.tilt_state = classify_tilt(gyro', tilt')
          /\ tilt_state' = Str(loc'.tilt_state)
          /\ tilt_state' # tilt_state => tilt_history'[3] = tilt_state'
          /\ loc'.pair = examined_pair(tilt_history')
          /\ loc'.command = derive_command(loc'.pair)
          /\ cur_tilt_command' # cur_tilt_command =>
                /\ cur_tilt_command'.command = loc'.command
                /\ loc'.history[3] = cur_tilt_command'
          /\ combination' = detect_combination(combination, loc'.history, loc'.t)
          /\ combination' # "" => AllNone(tilt_command_history')
          /\ combination' = "" => tilt_command_history' = loc'.history ]_vars

\* one tick in which a new tilt state was appended, completed the pair that
\* gives a new command, whose push completed RLR, which cleared the history
C27_Witness ==
    /\ last = "tick"
    /\ loc.pending = ""
    /\ tilt_history[3] = tilt_state
    /\ loc.pair = <<Str("twist right"), Str("twist left")>>
    /\ cur_tilt_command = loc.history[3]
    /\ Commands(loc.history) = <<"twist right", "twist left", "twist right">>
    /\ combination = "RLR"
    /\ AllNone(tilt_command_history)

\* C26 as stated: a pass of demo's loop runs the tick exactly when the clock read
\* at the gate is at or past last_tick + interval, the boundary included, and
\* last_tick then becomes the current time.
C26_Original ==
    [][ gate' # gate =>
          /\ gate'.ran <=> gate'.read >= gate.time + sleep_time
          /\ gate'.ran => gate'.time = gate'.clock ]_vars

\* C26: a pass of demo's loop runs the tick exactly when the clock read at the
\* gate is strictly past last_tick + interval; at the boundary no tick runs.
\* After a tick last_tick is a fresh clock reading, taken after the tick; a pass
\* without tick leaves last_tick as it was.
C26_TickStrictlyAfterInterval ==
    [][ gate' # gate =>
          /\ gate'.ran <=> gate'.read > gate.time + sleep_time
          /\ gate'.ran => gate'.time = gate'.clock /\ gate'.time >= gate'.read
          /\ ~gate'.ran => gate'.time = gate.time ]_vars

\* a pass that read the clock exactly at last_tick + interval, after an earlier
\* tick, and ran no tick
C26_Witness ==
    /\ gate.time > 0
    /\ gate.read = gate.time + sleep_time
    /\ ~gate.ran

\* the positions inside demo, ball_demo and banner_demo
InLoop == LoopPcs \cup CheckPcs

\* C25: demo, ball_demo and banner_demo are left only from their LRL test with
\* combination = 'LRL', and that step resets combination to ''; a test that
\* finds another value continues the loop and leaves the value in place;
\* inside a loop combination is never emptied in any other way.  main_menu
\* itself has no exit: it is always in its own loop or in a loop it called.
C25_LoopLeftOnlyOnLRL ==
    /\ [](menu.pc \in {"menu", "menu_update"} \cup InLoop)
    /\ [][ menu.pc \in InLoop =>
              /\ menu'.pc \notin InLoop =>
                    /\ menu.pc \in CheckPcs
                    /\ combination = "LRL"
                    /\ combination' = ""
                    /\ menu'.pc = "menu_update"
              /\ menu.pc \in CheckPcs /\ combination # "LRL" =>
                    /\ menu'.pc \in LoopPcs
                    /\ combination' = combination
              /\ combination # "" /\ combination' = "" =>
                    combination = "LRL" /\ menu'.pc \notin InLoop ]_vars

\* a loop has been left on LRL, back in main_menu with the combination reset
C25_Witness ==
    /\ last = "exit"
    /\ menu.pc = "menu_update"
    /\ combination = ""
    /\ Commands(menu.produced) = <<"twist left", "twist right", "twist left">>

\* C24: a pass of main_menu's loop that begins more than 20 seconds after the
\* menu came up with nothing selected starts the banner instead of going on.
\* The code has no such step: the menu goes on for as long as it is left alone.
C24_AutoSelectsBanner ==
    menu.pc = "menu_update" /\ last = "menu" => now <= AutoSelectAfter

\* C30: in a loop, the tick that pushes the third of (twist left, twist right,
\* twist left), the first pushed less than 2 seconds before the LRL test,
\* leaves combination = 'LRL', and the test that follows leaves the loop,
\* whatever was raised in the loop before.  With RLR or DUD raised earlier in
\* the loop nothing consumes it, every tick resets the history, and LRL is not
\* raised.
C30_LRLAfterEarlierCombination ==
    [][ /\ last = "tick"
        /\ menu.pc \in CheckPcs
        /\ Commands(menu.produced) = <<"twist left", "twist right", "twist left">>
        /\ loc.command = "twist left"
        /\ loc.history # <<>>
        /\ loc.history[Len(loc.history)] = menu.produced[3]
        /\ loc.t[1] - menu.produced[1].time < CombinationWindow
        => combination = "LRL" /\ menu'.pc = "menu_update" ]_vars

\* C31: the current command is assigned only by a push and then holds the pushed
\* entry: a tick without push, also one that clears the history on a
\* combination, leaves it as it was, so once a command was raised it is never
\* 'none' again; and a push never repeats the current command, so after a clear
\* the command that completed the combination is pushed again only after a
\* different one.  No other operation touches the current command.
C31_CommandHeldUntilNextPush ==
    [][ /\ last' # "tick" => cur_tilt_command' = cur_tilt_command
        /\ last' = "tick" =>
              /\ cur_tilt_command.command # "none" => cur_tilt_command'.command # "none"
              /\ loc'.history = tilt_command_history =>
                    cur_tilt_command' = cur_tilt_command
              /\ loc'.history # tilt_command_history =>
                    /\ cur_tilt_command' = loc'.history[Len(loc'.history)]
                    /\ cur_tilt_command'.command = loc'.command
                    /\ loc'.command # "none"
                    /\ loc'.command # cur_tilt_command.command ]_vars

\* a tick has just completed LRL and cleared the history; the current command
\* is still the twist left it pushed
C31_Witness ==
    /\ last = "tick"
    /\ loc.pending = ""
    /\ combination = "LRL"
    /\ AllNone(tilt_command_history)
    /\ loc.history[3] = cur_tilt_command
    /\ cur_tilt_command.command = "twist left"

\* adjacent entries of h that are both not 'none' hold different commands
RealNeighboursDiffer(h) ==
    \A i \in 1..(Len(h) - 1) :
        h[i].command # "none" /\ h[i + 1].command # "none" => h[i].command # h[i + 1].command

\* C32: in every state adjacent command-history entries that are both not
\* 'none' differ, also in the history as a tick's push left it; the entry a
\* tick pushes is not 'none'; and 'none' entries are written only by the
\* constructor and by the clear on combination: a tick that ends with no
\* combination leaves the history as its push left it, and no other operation
\* changes the history.
C32_PushedEntriesRealAndDistinct ==
    /\ [](RealNeighboursDiffer(tilt_command_history))
    /\ [][ /\ last' # "tick" => tilt_command_history' = tilt_command_history
           /\ last' = "tick" =>
                 /\ RealNeighboursDiffer(loc'.history)
                 /\ loc'.history # tilt_command_history =>
                       /\ loc'.history[3].command # "none"
                       /\ loc'.history[1] = tilt_command_history[2]
                       /\ loc'.history[2] = tilt_command_history[3]
                 /\ combination' = "" => tilt_command_history' = loc'.history
                 /\ combination' # "" => AllNone(tilt_command_history') ]_vars

\* a tick pushed a second command next to a first one, a placeholder of the
\* constructor or of a clear still in the oldest slot
C32_Witness ==
    /\ last = "tick"
    /\ combination = ""
    /\ tilt_command_history = loc.history
    /\ tilt_command_history[1].command = "none"
    /\ tilt_command_history[2].command # "none"
    /\ tilt_command_history[3] = cur_tilt_command
    /\ tilt_command_history[3].command # "none"

\* C33: in main_menu selection is always one of 0..len(choices)-1 and the
\* selector sprite's y is 100 + 20 * selection; a pass of the loop that takes
\* UDU moves selection one back, from 0 to the last choice; one that takes DUD
\* moves it one forward, from the last choice to 0; every other step leaves it.
C33_SelectionWrapsInRange ==
    /\ [](/\ menu.selection \in 0..(Len(choices) - 1)
          /\ menu.selector = 100 + 20 * menu.selection)
    /\ [][ /\ last' # "menu" => menu'.selection = menu.selection
           /\ last' = "menu" /\ menu'.com = "UDU" =>
                 menu'.selection =
                     IF menu.selection = 0 THEN Len(choices) - 1 ELSE menu.selection - 1
           /\ last' = "menu" /\ menu'.com = "DUD" =>
                 menu'.selection =
                     IF menu.selection = Len(choices) - 1 THEN 0 ELSE menu.selection + 1
           /\ last' = "menu" /\ menu'.com \notin {"UDU", "DUD"} =>
                 menu'.selection = menu.selection ]_vars

\* UDU has just moved the selection back from the first choice: it wrapped to
\* the last choice, and the selector stands on it
C33_Witness ==
    /\ last = "menu"
    /\ menu.com = "UDU"
    /\ menu.selection = Len(choices) - 1
    /\ menu.selector = 160

\* C34: the battery percentage never decreases when the voltage does not: of two
\* readings the one at the higher voltage shows at least the percentage of the
\* other; it is 0 at min_voltage and 100 at max_voltage.  (battery.percent /
\* max_diff is percent / 100.)  In the code the percentage falls as the voltage
\* rises from min_voltage to max_voltage.
C34_PercentMonotone ==
    /\ [](/\ battery.voltage = MinVoltage => battery.percent = 0
          /\ battery.voltage = MaxVoltage => battery.percent = max_diff)
    /\ [][ battery.voltage <= battery'.voltage =>
               battery.percent <= battery'.percent ]_vars

\* C35: every entry of the tilt history is a {state, time} record, after any
\* number of ticks, and the entry a tick pushes carries the tick's tilt state
\* and the time of the push.  The code appends the bare state string.
C35_TiltHistoryHoldsRecords ==
    /\ [](\A i \in 1..Len(tilt_history) : tilt_history[i].kind = "dict")
    /\ [][ last' = "tick" /\ tilt_history' # tilt_history =>
               /\ tilt_history'[Len(tilt_history')].kind = "dict"
               /\ tilt_history'[Len(tilt_history')].state = loc'.tilt_state
               /\ tilt_history'[Len(tilt_history')].time \in {now, now'} ]_vars

\* r is n / d (d > 0) with the fraction cut off: the integer next to n / d on
\* the side of zero
TruncatedQuotient(r, n, d) ==
    IF n >= 0 THEN r * d <= n /\ n < (r + 1) * d
    ELSE (r - 1) * d < n /\ n <= r * d

\* C36: after a tick on the raw words (ax, ay, az, gx, gy, gz), as read_raw_xyz
\* returned them,
\*   accel.x = int((ay/4096 + 0.01) * 10)     gyro.x = int(gx/64 - 5.58)
\*   accel.y = int((ax/4096 + 0.04) * -10)    gyro.y = int(gy/64 + 45.55)
\*   accel.z = int((az/4096 + 1.11) * 10)     gyro.z = int(gz/64 - 0.20)
\* with int() cutting the fraction off toward zero for either sign.  Each value
\* is written over a common denominator: 409600 for accel, 6400 for gyro.
C36_CalibrationSwapsScalesTruncates ==
    last = "tick" =>
        /\ TruncatedQuotient(accel.x, 1000 * loc.raw[2] + 40960, 409600)
        /\ TruncatedQuotient(accel.y, -(1000 * loc.raw[1] + 163840), 409600)
        /\ TruncatedQuotient(accel.z, 1000 * loc.raw[3] + 4546560, 409600)
        /\ TruncatedQuotient(gyro.x, 100 * loc.raw[4] - 35712, 6400)
        /\ TruncatedQuotient(gyro.y, 100 * loc.raw[5] + 291520, 6400)
        /\ TruncatedQuotient(gyro.z, 100 * loc.raw[6] - 1280, 6400)

\* source ax = 256/4096 g: calibrated y is int(-1.025) = -1 while x is
\* int(0.1) = 0, and the resting gyro y is int(-0.43) = 0
C36_Witness ==
    /\ last = "tick"
    /\ loc.raw = <<256, 0, -4505, 384, -2943, 0>>
    /\ accel = [x |-> 0, y |-> -1, z |-> 0]
    /\ gyro = [x |-> 0, y |-> 0, z |-> 0]

====
